---- MODULE Spec2Model ----
(***************************************************************************)
(* Model of rusist (src/src/main.rs): an initiative tracker.  `run` gets a *)
(* roster from a file (grab_initiative) or from the interactive setup menu *)
(* (populate_entries), rejects an empty roster, sorts it by descending     *)
(* initiative and steps through turns and rounds (handle_combat_input).    *)
(*                                                                         *)
(* Strings are sequences of one-character strings.  Option<T> is a         *)
(* sequence of length 0 (None) or 1 (Some).                                *)
(***************************************************************************)
EXTENDS Integers, Sequences, FiniteSets, TLC

VARIABLES
    argc,       \* env::args().len(): program name plus arguments
    file,       \* the roster source named by the argument
    pc,         \* position of main/run: "main","run","setup","loaded","combat","exited","panicked"
    state,      \* SetupState of populate_entries
    fighters,   \* the roster returned to run by grab_initiative / populate_entries
    combat,     \* Option<Combat>: <<>> until run constructs it
    err,        \* the error main reports ("none" when there is none)
    exit_code,  \* Option<exit code> of the process
    last        \* the key handled by the latest loop iteration and the menu it was handled in

vars == <<argc, file, pc, state, fighters, combat, err, exit_code, last>>

----------------------------------------------------------------------------
(* Bounds of the model *)

\* lines of a roster file
MaxLines == 3
\* characters the setup screen holds: both buffers, plus names and initiative digits of the roster
MaxText == 5
\* lines of the roster files the combat specification starts from
MaxCombatants == 3
\* combatants already entered when the form specification starts
MaxFormRoster == 2

----------------------------------------------------------------------------
(* Program constants *)

ADD_ENTRY == 0
REMOVE_ENTRY == 1
VIEW_ORDER == 2
PopulateMaxSize == 3
I32Max == 2147483647
I32Min == (-2147483647) - 1
I8Max == 127
I8Min == -128
ExitSuccess == 0
ExitFailure == 1
\* exit status of a process whose main thread panicked (101 in std)
ExitPanic == ExitFailure + 100

----------------------------------------------------------------------------
(* Text *)

Digits == {"0", "1", "2", "3", "4", "5", "6", "7", "8", "9"}

DigitValue(c) ==
    CASE c = "0" -> 0 [] c = "1" -> 1 [] c = "2" -> 2 [] c = "3" -> 3
      [] c = "4" -> 4 [] c = "5" -> 5 [] c = "6" -> 6 [] c = "7" -> 7
      [] c = "8" -> 8 [] c = "9" -> 9

\* char::is_ascii_digit
is_ascii_digit(c) == c \in Digits

\* the delimiter ", " of line.split(", ")
Delimiter == <<",", " ">>

\* index of the first occurrence of ", " in s at or after position i, 0 when there is none
RECURSIVE FindDelimiter(_, _)
FindDelimiter(s, i) ==
    IF i + 1 > Len(s) THEN 0
    ELSE IF s[i] = Delimiter[1] /\ s[i + 1] = Delimiter[2] THEN i
    ELSE FindDelimiter(s, i + 1)

\* str::split(", ").collect(): the pieces between non-overlapping occurrences, left to right
RECURSIVE split(_)
split(s) ==
    LET i == FindDelimiter(s, 1) IN
    IF i = 0 THEN <<s>>
    ELSE <<SubSeq(s, 1, i - 1)>> \o split(SubSeq(s, i + 2, Len(s)))

\* i32::from_str digit loop: checked_mul(10) then checked_add / checked_sub of the digit;
\* acc carries the sign, so that i32::MIN parses
RECURSIVE ParseDigits(_, _, _, _)
ParseDigits(digits, i, acc, neg) ==
    IF i > Len(digits) THEN [ok |-> TRUE, val |-> acc]
    ELSE IF ~is_ascii_digit(digits[i]) THEN [ok |-> FALSE, val |-> 0]
    ELSE LET d == DigitValue(digits[i]) IN
         IF neg
         THEN IF acc < (I32Min + d + 9) \div 10 THEN [ok |-> FALSE, val |-> 0]
              ELSE ParseDigits(digits, i + 1, acc * 10 - d, neg)
         ELSE IF acc > (I32Max - d) \div 10 THEN [ok |-> FALSE, val |-> 0]
              ELSE ParseDigits(digits, i + 1, acc * 10 + d, neg)

\* str::parse::<i32>(): optional '+' or '-', then one or more ASCII digits, within i32
parse_i32(s) ==
    IF s = <<>> THEN [ok |-> FALSE, val |-> 0]
    ELSE LET signed == s[1] \in {"+", "-"}
             digits == IF signed THEN Tail(s) ELSE s
         IN IF digits = <<>> THEN [ok |-> FALSE, val |-> 0]
            ELSE ParseDigits(digits, 1, 0, s[1] = "-")

----------------------------------------------------------------------------
(* Combatant and the sort *)

Combatant(name, initiative) == [name |-> name, initiative |-> initiative]

\* mutant: the comparator written a.initiative.cmp(&b.initiative)
CmpLess_Ascending(a, b) == a.initiative < b.initiative

\* the comparator |a, b| b.initiative.cmp(&a.initiative): a sorts before b when this is Less
CmpLess(a, b) == b.initiative < a.initiative

\* x inserted behind every element that does not sort after it
InsertStable(sorted, x) ==
    LET k == Cardinality({i \in 1..Len(sorted) : ~CmpLess(x, sorted[i])})
    IN SubSeq(sorted, 1, k) \o <<x>> \o SubSeq(sorted, k + 1, Len(sorted))

RECURSIVE SortPrefix(_, _)
SortPrefix(v, k) ==
    IF k = 0 THEN <<>> ELSE InsertStable(SortPrefix(v, k - 1), v[k])

\* Vec::sort_by with the comparator above: a stable sort
sort_by(v) == SortPrefix(v, Len(v))

----------------------------------------------------------------------------
(* RosterLoader *)

Ok(v) == [ok |-> TRUE, value |-> v, err |-> "none"]
Err(e) == [ok |-> FALSE, value |-> <<>>, err |-> e]

\* read_lines: File::open fails on a missing or unreadable source
read_lines(f) == IF f.readable THEN Ok(f.lines) ELSE Err("Io")

\* lines.map_while(Result::ok): the lines before the first one that cannot be read
RECURSIVE map_while_ok(_)
map_while_ok(lines) ==
    IF lines = <<>> \/ ~Head(lines).ok THEN <<>>
    ELSE <<Head(lines).text>> \o map_while_ok(Tail(lines))

\* the body of the for loop of grab_initiative, from line i on
RECURSIVE LoadLines(_, _, _)
LoadLines(lines, i, file_combatants) ==
    IF i > Len(lines) THEN Ok(file_combatants)
    ELSE LET splices == split(lines[i]) IN
         IF Len(splices) # 2 THEN Err("LineFormat")
         ELSE LET parsed == parse_i32(splices[2]) IN
              IF parsed.ok
              THEN LoadLines(lines, i + 1,
                             Append(file_combatants, Combatant(splices[1], parsed.val)))
              ELSE Err("IntegerParse")

\* mutant: the loader sorts what it read
grab_initiative_Sorted(f) ==
    LET opened == read_lines(f)
        loaded == LoadLines(map_while_ok(opened.value), 1, <<>>)
    IN IF opened.ok
       THEN IF loaded.ok THEN Ok(sort_by(loaded.value)) ELSE loaded
       ELSE Ok(<<>>)

grab_initiative(f) ==
    LET opened == read_lines(f) IN
    IF opened.ok THEN LoadLines(map_while_ok(opened.value), 1, <<>>)
    ELSE Ok(<<>>)

----------------------------------------------------------------------------
(* SetupStateMachine *)

Key(code, c) == [code |-> code, c |-> c]

Step(exit, s) == [exit |-> exit, state |-> s]

\* SetupState as populate_entries constructs it
InitialSetupState ==
    [combatants |-> <<>>, menu |-> "PopulateEntries", selected |-> 0,
     max_size |-> PopulateMaxSize, name_input |-> <<>>, initiative_input |-> <<>>,
     active_field |-> "Name"]

\* String::pop
pop(s) == IF s = <<>> THEN s ELSE SubSeq(s, 1, Len(s) - 1)

\* mutant: the last entry goes instead of the selected one
remove_Last(v, index) == SubSeq(v, 1, Len(v) - 1)

\* Vec::remove(index), index < len
remove(v, index) == SubSeq(v, 1, index) \o SubSeq(v, index + 2, Len(v))

\* mutant: an initiative that does not parse is entered as 0
add_entry_DefaultsToZero(s) ==
    IF s.name_input = <<>> THEN Step(FALSE, s)
    ELSE LET parsed == parse_i32(s.initiative_input) IN
         Step(FALSE,
              [s EXCEPT !.combatants = Append(@, Combatant(s.name_input, parsed.val)),
                        !.name_input = <<>>,
                        !.initiative_input = <<>>,
                        !.active_field = "Name",
                        !.menu = "PopulateEntries",
                        !.selected = 0])

add_entry(s) ==
    IF s.name_input = <<>> THEN Step(FALSE, s)
    ELSE LET parsed == parse_i32(s.initiative_input) IN
         Step(FALSE,
              [s EXCEPT !.combatants =
                            IF parsed.ok
                            THEN Append(@, Combatant(s.name_input, parsed.val))
                            ELSE @,
                        !.name_input = <<>>,
                        !.initiative_input = <<>>,
                        !.active_field = "Name",
                        !.menu = "PopulateEntries",
                        !.selected = 0])

remove_entry(s) ==
    IF s.selected >= Len(s.combatants) THEN Step(FALSE, s)
    ELSE Step(FALSE, [s EXCEPT !.combatants = remove(@, s.selected),
                               !.menu = "PopulateEntries",
                               !.selected = 0])

\* mutant: viewing does not sort
view_initiative_order_NoSort(s) ==
    Step(FALSE, [s EXCEPT !.menu = "PopulateEntries", !.selected = 0])

view_initiative_order(s) ==
    Step(FALSE, [s EXCEPT !.combatants = sort_by(@),
                          !.menu = "PopulateEntries",
                          !.selected = 0])

\* mutant: the View arm is missing, so that index falls through to Continue
handle_enter_ViewLeaves(s) ==
    CASE s.menu = "PopulateEntries" ->
            IF s.selected = ADD_ENTRY
            THEN Step(FALSE, [s EXCEPT !.menu = "AddEntry", !.selected = 0])
            ELSE IF s.selected = REMOVE_ENTRY
            THEN Step(FALSE, [s EXCEPT !.menu = "RemoveEntry", !.selected = 0])
            ELSE Step(TRUE, s)
      [] s.menu = "AddEntry" -> add_entry(s)
      [] s.menu = "RemoveEntry" -> remove_entry(s)
      [] s.menu = "ViewOrder" -> view_initiative_order(s)

handle_enter(s) ==
    CASE s.menu = "PopulateEntries" ->
            IF s.selected = ADD_ENTRY
            THEN Step(FALSE, [s EXCEPT !.menu = "AddEntry", !.selected = 0])
            ELSE IF s.selected = REMOVE_ENTRY
            THEN Step(FALSE, [s EXCEPT !.menu = "RemoveEntry", !.selected = 0])
            ELSE IF s.selected = VIEW_ORDER
            THEN Step(FALSE, [s EXCEPT !.menu = "ViewOrder", !.selected = 0])
            ELSE Step(TRUE, s)
      [] s.menu = "AddEntry" -> add_entry(s)
      [] s.menu = "RemoveEntry" -> remove_entry(s)
      [] s.menu = "ViewOrder" -> view_initiative_order(s)

\* mutant: Cancel leaves selected where it was
handle_esc_KeepsSelected(s) ==
    IF s.menu = "PopulateEntries" THEN Step(TRUE, s)
    ELSE Step(FALSE, [s EXCEPT !.menu = "PopulateEntries"])

\* mutant: Cancel out of the form empties it
handle_esc_ClearsForm(s) ==
    IF s.menu = "PopulateEntries" THEN Step(TRUE, s)
    ELSE Step(FALSE, [s EXCEPT !.menu = "PopulateEntries", !.selected = 0,
                               !.name_input = <<>>, !.initiative_input = <<>>,
                               !.active_field = "Name"])

\* the KeyCode::Esc arm of handle_input
handle_esc(s) ==
    IF s.menu = "PopulateEntries" THEN Step(TRUE, s)
    ELSE Step(FALSE, [s EXCEPT !.menu = "PopulateEntries", !.selected = 0])

\* mutant: the minus sign is taken anywhere in the initiative
initiative_accepts_AnyMinus(s, c) == is_ascii_digit(c) \/ c = "-"

\* the filter of the Initiative field: digits, and '-' into an empty buffer
initiative_accepts(s, c) == is_ascii_digit(c) \/ (c = "-" /\ s.initiative_input = <<>>)

handle_input(s, key) ==
    CASE key.code = "Up" ->
            Step(FALSE, IF s.selected > 0 THEN [s EXCEPT !.selected = @ - 1] ELSE s)
      [] key.code = "Down" ->
            Step(FALSE, IF s.selected < s.max_size THEN [s EXCEPT !.selected = @ + 1] ELSE s)
      [] key.code = "Enter" -> handle_enter(s)
      [] key.code = "Esc" -> handle_esc(s)
      [] key.code = "Tab" ->
            Step(FALSE,
                 IF s.menu = "AddEntry"
                 THEN [s EXCEPT !.active_field =
                                    IF @ = "Name" THEN "Initiative" ELSE "Name"]
                 ELSE s)
      [] key.code = "Backspace" ->
            Step(FALSE,
                 IF s.menu = "AddEntry"
                 THEN IF s.active_field = "Initiative"
                      THEN [s EXCEPT !.initiative_input = pop(@)]
                      ELSE [s EXCEPT !.name_input = pop(@)]
                 ELSE s)
      [] key.code = "Char" ->
            Step(FALSE,
                 IF s.menu = "AddEntry"
                 THEN IF s.active_field = "Name"
                      THEN [s EXCEPT !.name_input = Append(@, key.c)]
                      ELSE IF initiative_accepts(s, key.c)
                           THEN [s EXCEPT !.initiative_input = Append(@, key.c)]
                           ELSE s
                 ELSE s)
      [] OTHER -> Step(FALSE, s)

\* mutant: max_size is never refreshed
LoopTop_Stale(s) == s

\* the top of the loop of populate_entries: max_size follows the menu
LoopTop(s) ==
    [s EXCEPT !.max_size = IF s.menu # "PopulateEntries"
                           THEN Len(s.combatants) ELSE PopulateMaxSize]

----------------------------------------------------------------------------
(* CombatStateMachine *)

Combat(combatants) == [combatants |-> combatants, current_turn |-> 0, round |-> 0]

\* i8 arithmetic of `round += 1` / `round -= 1`: out of range it panics when the build
\* checks overflow (debug profile) and wraps otherwise (release profile)
I8Wrap(x) == ((x - I8Min) % (I8Max - I8Min + 1)) + I8Min
I8Overflows(x) == x < I8Min \/ x > I8Max

CombatStep(exit, panicked, c) == [exit |-> exit, panicked |-> panicked, state |-> c]

\* mutant: the turn advances without the wraparound
NextTurn_NoWrap(c) == c.current_turn + 1

\* (state.current_turn + 1) % state.combatants.len()
NextTurn(c) == (c.current_turn + 1) % Len(c.combatants)

\* the combat state is only built from a non-empty roster (run), so len() >= 1 here
handle_combat_input(c, key, overflow_checks) ==
    LET n == Len(c.combatants) IN
    CASE key.code = "Enter" ->
            LET turned == [c EXCEPT !.current_turn = NextTurn(c)] IN
            IF turned.current_turn = 0
            THEN IF I8Overflows(c.round + 1) /\ overflow_checks
                 THEN CombatStep(FALSE, TRUE, turned)
                 ELSE CombatStep(FALSE, FALSE, [turned EXCEPT !.round = I8Wrap(@ + 1)])
            ELSE CombatStep(FALSE, FALSE, turned)
      [] key.code = "Backspace" ->
            IF c.current_turn = 0
            THEN IF I8Overflows(c.round - 1) /\ overflow_checks
                 THEN CombatStep(FALSE, TRUE, c)
                 ELSE CombatStep(FALSE, FALSE,
                                 [c EXCEPT !.round = I8Wrap(@ - 1), !.current_turn = n - 1])
            ELSE CombatStep(FALSE, FALSE, [c EXCEPT !.current_turn = @ - 1])
      [] key.code = "Esc" -> CombatStep(TRUE, FALSE, c)
      [] OTHER -> CombatStep(FALSE, FALSE, c)

----------------------------------------------------------------------------
(* Inputs *)

Text(name, field) == name \o Delimiter \o field

Readable(text) == [ok |-> TRUE, text |-> text]

\* a line whose read fails (an I/O error, bytes that are not UTF-8)
Unreadable == [ok |-> FALSE, text |-> <<>>]

\* the records a roster file is made of: valid ones (ties, an empty name, a negative
\* initiative), one without delimiter, one with three fields, one whose initiative is no
\* integer, and one that cannot be read
FileLines ==
    { Readable(Text(<<"A">>, <<"1", "5">>)),
      Readable(Text(<<"L">>, <<"1", "8">>)),
      Readable(Text(<<"G">>, <<"1", "2">>)),
      Readable(Text(<<"b">>, <<"1", "5">>)),
      Readable(Text(<<>>, <<"-", "3">>)),
      Readable(<<"B", "a", "d">>),
      Readable(Text(<<"a">>, Text(<<"1">>, <<"2">>))),
      Readable(Text(<<"F">>, <<"a", "b", "c">>)),
      Unreadable }

SeqsUpTo(S, n) == UNION {[1..k -> S] : k \in 0..n}

MissingFile == [readable |-> FALSE, lines |-> <<>>]

Files == {MissingFile} \cup {[readable |-> TRUE, lines |-> ls] : ls \in SeqsUpTo(FileLines, MaxLines)}

\* the characters typed in setup: a letter, a digit and the minus sign
KeyChars == {"a", "1", "-"}

\* decimal digits (and sign) of an initiative
RECURSIVE DecLen(_)
DecLen(v) == IF v < 0 THEN 1 + DecLen(-v) ELSE IF v < 10 THEN 1 ELSE 1 + DecLen(v \div 10)

RECURSIVE RosterText(_)
RosterText(v) ==
    IF v = <<>> THEN 0
    ELSE Len(Head(v).name) + DecLen(Head(v).initiative) + RosterText(Tail(v))

\* the characters a setup state holds
TextHeld(s) == Len(s.name_input) + Len(s.initiative_input) + RosterText(s.combatants)

NoKey == [key |-> "None", menu |-> "None"]

----------------------------------------------------------------------------
(* main and run *)

Init ==
    /\ argc \in 1..3
    /\ file \in (IF argc = 2 THEN Files ELSE {MissingFile})
    /\ pc = "main"
    /\ state = InitialSetupState
    /\ fighters = <<>>
    /\ combat = <<>>
    /\ err = "none"
    /\ exit_code = <<>>
    /\ last = NoKey

\* main on Err(e): the message goes to stderr and the exit code is FAILURE
Fail(e) ==
    /\ pc' = "exited"
    /\ err' = e
    /\ exit_code' = <<ExitFailure>>

\* parse_args, and main's match on its result
ParseArgs ==
    /\ pc = "main"
    /\ IF argc > 2
       THEN Fail("Usage")
       ELSE pc' = "run" /\ UNCHANGED <<err, exit_code>>
    /\ UNCHANGED <<argc, file, state, fighters, combat, last>>

\* run with a file name: grab_initiative
RunLoad ==
    /\ pc = "run"
    /\ argc >= 2
    /\ LET r == grab_initiative(file) IN
       IF r.ok
       THEN fighters' = r.value /\ pc' = "loaded" /\ UNCHANGED <<err, exit_code>>
       ELSE Fail(r.err) /\ UNCHANGED fighters
    /\ UNCHANGED <<argc, file, state, combat, last>>

\* run without a file name: populate_entries builds its SetupState
RunSetup ==
    /\ pc = "run"
    /\ argc < 2
    /\ pc' = "setup"
    /\ state' = InitialSetupState
    /\ UNCHANGED <<argc, file, fighters, combat, err, exit_code, last>>

\* one iteration of the loop of populate_entries on a key event
SetupKey(key) ==
    /\ pc = "setup"
    /\ LET r == handle_input(LoopTop(state), key) IN
       /\ state' = r.state
       /\ IF r.exit
          THEN fighters' = r.state.combatants /\ pc' = "loaded"
          ELSE UNCHANGED <<fighters, pc>>
    /\ last' = [key |-> key.code, menu |-> state.menu]
    /\ UNCHANGED <<argc, file, combat, err, exit_code>>

SetupUp == SetupKey(Key("Up", ""))
SetupDown == SetupKey(Key("Down", ""))
SetupEnter == SetupKey(Key("Enter", ""))
SetupEsc == SetupKey(Key("Esc", ""))
SetupTab == SetupKey(Key("Tab", ""))
SetupBackspace == SetupKey(Key("Backspace", ""))
SetupChar == \E c \in KeyChars : TextHeld(state) < MaxText /\ SetupKey(Key("Char", c))
SetupOtherKey == SetupKey(Key("Other", ""))

\* an event that is no key event: the loop of populate_entries goes round
SetupOtherEvent ==
    /\ pc = "setup"
    /\ state' = LoopTop(state)
    /\ UNCHANGED <<argc, file, pc, fighters, combat, err, exit_code, last>>

\* terminal.draw or event::read fails: the error goes up to main
TerminalError ==
    /\ pc \in {"setup", "combat"}
    /\ Fail("Terminal")
    /\ UNCHANGED <<argc, file, state, fighters, combat, last>>

\* mutant: run does not look at the roster
is_empty_Never(v) == FALSE

\* Vec::is_empty
is_empty(v) == v = <<>>

\* run after the roster is there: the emptiness check, the sort, the Combat
RunStartCombat ==
    /\ pc = "loaded"
    /\ IF is_empty(fighters)
       THEN Fail("EmptyRoster") /\ UNCHANGED combat
       ELSE /\ combat' = <<Combat(sort_by(fighters))>>
            /\ pc' = "combat"
            /\ UNCHANGED <<err, exit_code>>
    /\ UNCHANGED <<argc, file, state, fighters, last>>

\* one iteration of the loop of run on a key event
CombatKey(key) ==
    /\ pc = "combat"
    /\ \E overflow_checks \in BOOLEAN :
          LET r == handle_combat_input(combat[1], key, overflow_checks) IN
          /\ combat' = <<r.state>>
          /\ IF r.panicked
             THEN pc' = "panicked" /\ exit_code' = <<ExitPanic>>
             ELSE IF r.exit
             THEN pc' = "exited" /\ exit_code' = <<ExitSuccess>>
             ELSE UNCHANGED <<pc, exit_code>>
    /\ last' = [key |-> key.code, menu |-> "Combat"]
    /\ UNCHANGED <<argc, file, state, fighters, err>>

CombatEnter == CombatKey(Key("Enter", ""))
CombatBackspace == CombatKey(Key("Backspace", ""))
CombatEsc == CombatKey(Key("Esc", ""))
CombatOtherKey == CombatKey(Key("Other", ""))

\* the program up to the construction of the Combat
Next ==
    \/ ParseArgs
    \/ RunLoad
    \/ RunSetup
    \/ SetupUp
    \/ SetupDown
    \/ SetupEnter
    \/ SetupEsc
    \/ SetupTab
    \/ SetupBackspace
    \/ SetupChar
    \/ SetupOtherKey
    \/ SetupOtherEvent
    \/ TerminalError
    \/ RunStartCombat

Spec == Init /\ [][Next]_vars

\* the rosters the combat specification starts from
CombatFiles ==
    {[readable |-> TRUE, lines |-> ls] :
        ls \in SeqsUpTo({Readable(Text(<<"A">>, <<"1", "5">>)),
                         Readable(Text(<<"L">>, <<"1", "8">>))}, MaxCombatants) \ {<<>>}}

\* run has just built the Combat from a roster file
InitCombat ==
    /\ argc = 2
    /\ file \in CombatFiles
    /\ pc = "combat"
    /\ state = InitialSetupState
    /\ fighters = grab_initiative(file).value
    /\ combat = <<Combat(sort_by(fighters))>>
    /\ err = "none"
    /\ exit_code = <<>>
    /\ last = NoKey

NextCombat ==
    \/ CombatEnter
    \/ CombatBackspace
    \/ CombatEsc
    \/ CombatOtherKey
    \/ TerminalError

SpecCombat == InitCombat /\ [][NextCombat]_vars

Chars(n, c) == [i \in 1..n |-> c]

\* what the Initiative field may hold when Confirm comes: nothing, a lone minus sign,
\* small values, and the values around the limits of i32
FormInitiatives ==
    { <<>>, <<"-">>, <<"7">>, <<"-", "1">>,
      <<"2", "1", "4", "7", "4", "8", "3", "6", "4", "7">>,
      <<"2", "1", "4", "7", "4", "8", "3", "6", "4", "8">>,
      <<"-", "2", "1", "4", "7", "4", "8", "3", "6", "4", "8">>,
      <<"-", "2", "1", "4", "7", "4", "8", "3", "6", "4", "9">>,
      Chars(11, "9") }

FormNames == { <<>>, <<"a">>, <<"-", "1">> }

FormRosters == SeqsUpTo({Combatant(<<"a">>, 1), Combatant(<<"b">>, 11)}, MaxFormRoster)

\* the form is open and filled in: the name was typed last (active_field = Name), or
\* Next-Field was pressed after it (active_field = Initiative)
InitAddEntry ==
    /\ argc = 1
    /\ file = MissingFile
    /\ pc = "setup"
    /\ \E roster \in FormRosters, name \in FormNames \ {<<>>},
          initiative \in FormInitiatives, field \in {"Name", "Initiative"} :
          /\ \E selected \in 0..Len(roster) :
                state = [combatants |-> roster, menu |-> "AddEntry", selected |-> selected,
                         max_size |-> Len(roster), name_input |-> name,
                         initiative_input |-> initiative, active_field |-> field]
          /\ last = [key |-> IF field = "Name" THEN "Char" ELSE "Tab", menu |-> "AddEntry"]
    /\ fighters = <<>>
    /\ combat = <<>>
    /\ err = "none"
    /\ exit_code = <<>>

NextAddEntry ==
    \/ SetupEnter

SpecAddEntry == InitAddEntry /\ [][NextAddEntry]_vars

----------------------------------------------------------------------------
(* Claims about the combat state machine (SpecCombat) *)

\* k Confirm intents in a row; a panic ends the run
RECURSIVE Confirms(_, _, _)
Confirms(c, k, overflow_checks) ==
    IF k = 0 THEN CombatStep(FALSE, FALSE, c)
    ELSE LET before == Confirms(c, k - 1, overflow_checks) IN
         IF before.panicked THEN before
         ELSE handle_combat_input(before.state, Key("Enter", ""), overflow_checks)

\* C1: from current_turn = 0 and any round r, n Confirm intents over a roster of n lead
\* through current_turn = 1, 2, ..., n-1, 0 and to round r + 1, the round changing only
\* at the n-th Confirm.
C1_ConfirmCycle ==
    (pc = "combat" /\ combat[1].current_turn = 0) =>
        \A overflow_checks \in BOOLEAN :
            LET n == Len(combat[1].combatants)
                r == combat[1].round
            IN \A k \in 1..n :
                  LET after == Confirms(combat[1], k, overflow_checks) IN
                  /\ ~after.panicked
                  /\ after.state.current_turn = k % n
                  /\ after.state.round = IF k = n THEN r + 1 ELSE r

Then(first, key, overflow_checks) ==
    IF first.panicked THEN first
    ELSE handle_combat_input(first.state, key, overflow_checks)

\* C2: in every combat state, Confirm then Backward and Backward then Confirm both give
\* the state back, and a step changes round only when it crosses between index n-1 and 0.
C2_BackwardInverse ==
    pc = "combat" =>
        \A overflow_checks \in BOOLEAN :
            LET c == combat[1]
                n == Len(c.combatants)
                confirm == handle_combat_input(c, Key("Enter", ""), overflow_checks)
                backward == handle_combat_input(c, Key("Backspace", ""), overflow_checks)
                there == Then(confirm, Key("Backspace", ""), overflow_checks)
                back == Then(backward, Key("Enter", ""), overflow_checks)
            IN /\ ~there.panicked /\ there.state = c
               /\ ~back.panicked /\ back.state = c
               /\ (c.current_turn # n - 1 => confirm.state.round = c.round)
               /\ (c.current_turn # 0 => backward.state.round = c.round)

\* C3: whenever a combat state exists, current_turn is an index into its combatants.
C3_TurnInBounds ==
    combat # <<>> =>
        /\ combat[1].current_turn >= 0
        /\ combat[1].current_turn < Len(combat[1].combatants)

\* Backward at current_turn = 0 over a roster of one has acted
C3_Witness ==
    /\ pc = "combat"
    /\ Len(combat[1].combatants) = 1
    /\ last.key = "Backspace"
    /\ combat[1].round = -1
    /\ combat[1].current_turn = 0

----------------------------------------------------------------------------
(* Claims about run and the roster loader (Spec) *)

\* C4: no combat state holds an empty roster, and run, given an empty roster by the
\* loader or by setup, fails with the empty-roster error and the failure exit code
\* without building a combat state.
C4_NoEmptyCombat ==
    [][ /\ (combat' # <<>> => combat'[1].combatants # <<>>)
        /\ (pc = "loaded" /\ fighters = <<>>) =>
              /\ pc' = "exited"
              /\ err' = "EmptyRoster"
              /\ exit_code' = <<ExitFailure>>
              /\ combat' = <<>> ]_vars

\* setup was ended by Cancel with nothing entered, and run has refused the empty roster
C4_Witness ==
    /\ pc = "exited"
    /\ err = "EmptyRoster"
    /\ last = [key |-> "Esc", menu |-> "PopulateEntries"]
    /\ combat = <<>>

\* occurrences of ", " in a text
DelimiterCount(text) ==
    Cardinality({i \in 1..(Len(text) - 1) : text[i] = "," /\ text[i + 1] = " "})

\* value of a string of decimal digits, by position
RECURSIVE DecimalValue(_)
DecimalValue(digits) ==
    IF digits = <<>> THEN 0
    ELSE 10 * DecimalValue(SubSeq(digits, 1, Len(digits) - 1))
         + DigitValue(digits[Len(digits)])

IsInteger(field) ==
    LET digits == IF field # <<>> /\ field[1] \in {"+", "-"} THEN Tail(field) ELSE field
    IN digits # <<>> /\ \A i \in 1..Len(digits) : digits[i] \in Digits

\* the negated value of a string of decimal digits, by position
RECURSIVE NegatedValue(_)
NegatedValue(digits) ==
    IF digits = <<>> THEN 0
    ELSE 10 * NegatedValue(SubSeq(digits, 1, Len(digits) - 1))
         - DigitValue(digits[Len(digits)])

IntegerValue(field) ==
    IF field[1] = "-" THEN NegatedValue(Tail(field))
    ELSE IF field[1] = "+" THEN DecimalValue(Tail(field))
    ELSE DecimalValue(field)

\* the field behind the one delimiter of a record
SecondField(text) ==
    LET i == CHOOSE j \in 1..(Len(text) - 1) : text[j] = "," /\ text[j + 1] = " "
    IN SubSeq(text, i + 2, Len(text))

FirstField(text) ==
    LET i == CHOOSE j \in 1..(Len(text) - 1) : text[j] = "," /\ text[j + 1] = " "
    IN SubSeq(text, 1, i - 1)

\* the failure of a record, "none" for a valid one
RecordError(line) ==
    IF ~line.ok THEN "Io"
    ELSE IF DelimiterCount(line.text) # 1 THEN "LineFormat"
    ELSE IF ~IsInteger(SecondField(line.text)) THEN "IntegerParse"
    ELSE "none"

BadRecords(lines) == {i \in 1..Len(lines) : RecordError(lines[i]) # "none"}

FirstBadRecord(lines) == CHOOSE i \in BadRecords(lines) : \A j \in BadRecords(lines) : i <= j

\* C5: a roster file with a bad record makes the load fail with the error of its first
\* bad record; no roster comes out of it and no combat state is built.
C5_NoPartialRoster ==
    (argc = 2 /\ file.readable /\ BadRecords(file.lines) # {}) =>
        /\ fighters = <<>>
        /\ combat = <<>>
        /\ pc # "combat"
        /\ pc = "exited" =>
              /\ err = RecordError(file.lines[FirstBadRecord(file.lines)])
              /\ exit_code = <<ExitFailure>>

\* C6: with an unreadable or missing source the loader itself fails, with the source
\* error; the process exits with code 1.
C6_SourceError ==
    (argc = 2 /\ ~file.readable /\ pc \notin {"main", "run"}) =>
        /\ ~grab_initiative(file).ok
        /\ pc = "exited"
        /\ err = "Io"
        /\ exit_code = <<ExitFailure>>

Initiatives(v) == {v[i].initiative : i \in 1..Len(v)}

WithInitiative(v, x) == LET Test(c) == c.initiative = x IN SelectSeq(v, Test)

Occurrences(v, c) == Cardinality({i \in 1..Len(v) : v[i] = c})

\* out is in as a stable sort by descending initiative leaves it
IsStableSortOf(out, in) ==
    /\ Len(out) = Len(in)
    /\ \A i \in 1..Len(in) : Occurrences(out, in[i]) = Occurrences(in, in[i])
    /\ \A i \in 1..(Len(out) - 1) : out[i].initiative >= out[i + 1].initiative
    /\ \A x \in Initiatives(in) : WithInitiative(out, x) = WithInitiative(in, x)

\* C7: the roster of the combat state is the roster run was given, sorted by descending
\* initiative with ties in their earlier order; so is the setup roster after Confirm in
\* ViewOrder.
C7_StableSort ==
    [][ /\ (pc = "loaded" /\ pc' = "combat") =>
              IsStableSortOf(combat'[1].combatants, fighters)
        /\ (SetupEnter /\ state.menu = "ViewOrder") =>
              IsStableSortOf(state'.combatants, state.combatants) ]_vars

\* a loaded roster with a tie has been reordered and its tie kept in file order
C7_Witness ==
    /\ pc = "combat"
    /\ fighters = <<Combatant(<<"A">>, 15), Combatant(<<"L">>, 18), Combatant(<<"b">>, 15)>>
    /\ combat[1].combatants =
          <<Combatant(<<"L">>, 18), Combatant(<<"A">>, 15), Combatant(<<"b">>, 15)>>

\* C8: from a file of valid records the loader returns one combatant per record, in
\* file order, with the first field as name and the value of the second as initiative.
C8_LoaderKeepsRecords ==
    (argc = 2 /\ file.readable /\ BadRecords(file.lines) = {} /\ pc \notin {"main", "run"}) =>
        /\ Len(fighters) = Len(file.lines)
        /\ \A i \in 1..Len(fighters) :
              /\ fighters[i].name = FirstField(file.lines[i].text)
              /\ fighters[i].initiative = IntegerValue(SecondField(file.lines[i].text))

\* an unsorted file with an empty name has been loaded
C8_Witness ==
    /\ pc = "loaded"
    /\ fighters = <<Combatant(<<>>, -3), Combatant(<<"G">>, 12), Combatant(<<"L">>, 18)>>

----------------------------------------------------------------------------
(* Claims about the setup state machine (Spec) *)

\* C9: Confirm in AddEntry with an empty name_input adds no combatant and leaves the
\* machine in PopulateEntries with selected = 0.
C9_EmptyNameReturns ==
    [][ (SetupEnter /\ state.menu = "AddEntry" /\ state.name_input = <<>>) =>
            /\ state'.combatants = state.combatants
            /\ state'.menu = "PopulateEntries"
            /\ state'.selected = 0 ]_vars

\* C10: in RemoveEntry, Confirm with selected in bounds removes the combatant at
\* selected and no other, Confirm with selected out of bounds and Cancel leave the
\* roster as it is.
C10_RemoveAtSelected ==
    [][ LET old == state.combatants
            new == state'.combatants
            selected == state.selected
        IN /\ (SetupEnter /\ state.menu = "RemoveEntry" /\ selected < Len(old)) =>
                 /\ Len(new) = Len(old) - 1
                 /\ \A i \in 1..Len(new) :
                       new[i] = IF i <= selected THEN old[i] ELSE old[i + 1]
           /\ (SetupEnter /\ state.menu = "RemoveEntry" /\ selected >= Len(old)) =>
                 new = old
           /\ (SetupEsc /\ state.menu = "RemoveEntry") => new = old ]_vars

\* Confirm in RemoveEntry has removed one of several combatants
C10_Witness ==
    /\ pc = "setup"
    /\ last = [key |-> "Enter", menu |-> "RemoveEntry"]
    /\ state.menu = "PopulateEntries"
    /\ Len(state.combatants) >= 1


\* C11: in RemoveEntry every Confirm and every Cancel leaves the machine in
\* PopulateEntries.
C11_RemoveEntryReturns ==
    [][ ((SetupEnter \/ SetupEsc) /\ state.menu = "RemoveEntry") =>
            state'.menu = "PopulateEntries" ]_vars

\* digits a is at most digits b, both of one length
RECURSIVE DigitsAtMost(_, _)
DigitsAtMost(a, b) ==
    IF a = <<>> THEN TRUE
    ELSE IF DigitValue(Head(a)) # DigitValue(Head(b))
         THEN DigitValue(Head(a)) < DigitValue(Head(b))
         ELSE DigitsAtMost(Tail(a), Tail(b))

RECURSIVE WithoutLeadingZeros(_)
WithoutLeadingZeros(digits) ==
    IF digits # <<>> /\ Head(digits) = "0" THEN WithoutLeadingZeros(Tail(digits))
    ELSE digits

\* the decimal digits of 2^31 - 1 and of 2^31
I32MaxDigits == <<"2", "1", "4", "7", "4", "8", "3", "6", "4", "7">>
I32MinDigits == <<"2", "1", "4", "7", "4", "8", "3", "6", "4", "8">>

\* field is the text of an integer of 32 bits, decided on its digits
IsI32(field) ==
    /\ IsInteger(field)
    /\ LET digits == WithoutLeadingZeros(IF field[1] \in {"+", "-"} THEN Tail(field) ELSE field)
           limit == IF field[1] = "-" THEN I32MinDigits ELSE I32MaxDigits
       IN \/ Len(digits) < Len(limit)
          \/ Len(digits) = Len(limit) /\ DigitsAtMost(digits, limit)

\* C12: Confirm in AddEntry with a name appends the one combatant (name_input, value of
\* initiative_input) when initiative_input is the text of an i32 and leaves the roster
\* as it is otherwise; either way both buffers are empty afterwards and the machine is
\* in PopulateEntries with selected = 0.
C12_AddEntryConfirm ==
    [][ (SetupEnter /\ state.menu = "AddEntry" /\ state.name_input # <<>>) =>
            /\ state'.combatants =
                  IF IsI32(state.initiative_input)
                  THEN Append(state.combatants,
                              Combatant(state.name_input, IntegerValue(state.initiative_input)))
                  ELSE state.combatants
            /\ state'.name_input = <<>>
            /\ state'.initiative_input = <<>>
            /\ state'.menu = "PopulateEntries"
            /\ state'.selected = 0 ]_vars

\* Confirm has appended a combatant whose initiative is the largest i32
C12_Witness ==
    /\ last = [key |-> "Enter", menu |-> "AddEntry"]
    /\ state.menu = "PopulateEntries"
    /\ state.combatants # <<>>
    /\ state.combatants[Len(state.combatants)].initiative = I32Max
    /\ state.name_input = <<>>
    /\ state.initiative_input = <<>>

\* C13: round counts the Confirm steps that wrap current_turn to 0 minus the Backward
\* steps taken at current_turn = 0: each such step moves it by exactly one, without
\* saturating, wrapping or aborting, and no other step moves it.
C13_RoundCounts ==
    [][ pc = "combat" =>
            LET c == combat[1]
                wraps == CombatEnter /\ NextTurn(c) = 0
                unwraps == CombatBackspace /\ c.current_turn = 0
            IN /\ wraps => (pc' = "combat" /\ combat'[1].round = c.round + 1)
               /\ unwraps => (pc' = "combat" /\ combat'[1].round = c.round - 1)
               /\ ~(wraps \/ unwraps) => combat'[1].round = c.round ]_vars


\* the bound of selected in a menu state: the index of Continue, or the roster length
MenuRows(s) == IF s.menu = "PopulateEntries" THEN 3 ELSE Len(s.combatants)

\* C14: whenever setup waits for an intent, 0 <= selected <= max_size, where max_size,
\* as the loop sets it before the intent is handled, is 3 in PopulateEntries and the
\* roster length in the other menu states.
C14_SelectedInBounds ==
    pc = "setup" =>
        /\ LoopTop(state).max_size = MenuRows(state)
        /\ state.selected >= 0
        /\ state.selected <= MenuRows(state)

\* Down has taken selected one past the last row of RemoveEntry
C14_Witness ==
    /\ pc = "setup"
    /\ state.menu = "RemoveEntry"
    /\ last = [key |-> "Down", menu |-> "RemoveEntry"]
    /\ Len(state.combatants) >= 1
    /\ state.selected = Len(state.combatants)

\* the setup state but selected and max_size
BesidesSelection(s) ==
    <<s.combatants, s.menu, s.name_input, s.initiative_input, s.active_field>>

\* C15: Up and Down apply only outside AddEntry: in AddEntry an Up or Down intent
\* changes neither selected nor the rest of the setup state.
C15_NoNavigationInForm ==
    [][ ((SetupUp \/ SetupDown) /\ state.menu = "AddEntry") =>
            /\ state'.selected = state.selected
            /\ BesidesSelection(state') = BesidesSelection(state) ]_vars

\* C16: Confirm in PopulateEntries opens AddEntry, RemoveEntry or ViewOrder for
\* selected = 0, 1, 2, with selected back at 0 and the roster as it was, and ends setup
\* with the roster as its result for selected = 3 and for no other value.
C16_MenuConfirm ==
    [][ (SetupEnter /\ state.menu = "PopulateEntries") =>
            /\ state.selected \in 0..3
            /\ state'.combatants = state.combatants
            /\ IF state.selected = 3
               THEN pc' = "loaded" /\ fighters' = state.combatants
               ELSE /\ pc' = "setup"
                    /\ state'.selected = 0
                    /\ state'.menu = CASE state.selected = 0 -> "AddEntry"
                                       [] state.selected = 1 -> "RemoveEntry"
                                       [] state.selected = 2 -> "ViewOrder" ]_vars

\* Continue has ended setup with a roster
C16_Witness ==
    /\ pc = "loaded"
    /\ last = [key |-> "Enter", menu |-> "PopulateEntries"]
    /\ state.selected = 3
    /\ fighters # <<>>
    /\ fighters = state.combatants

C18_ViewOrder ==
    [][ (pc = "setup" /\ state.menu = "ViewOrder") =>
            IF SetupEnter
            THEN /\ IsStableSortOf(state'.combatants, state.combatants)
                 /\ state'.menu = "PopulateEntries"
            ELSE state'.combatants = state.combatants ]_vars

\* Confirm in ViewOrder has left a roster of two in descending order
C18_Witness ==
    /\ pc = "setup"
    /\ last = [key |-> "Enter", menu |-> "ViewOrder"]
    /\ state.menu = "PopulateEntries"
    /\ Len(state.combatants) = 2
    /\ state.combatants[1].initiative > state.combatants[2].initiative

\* an optional leading '-' and then digits only
IsInitiativeText(text) ==
    \A i \in 1..Len(text) : text[i] \in Digits \/ (i = 1 /\ text[i] = "-")

\* C19: initiative_input is always an optional leading '-' followed by digits, and a
\* Character intent outside AddEntry changes neither buffer.
C19_InitiativeText ==
    [][ /\ IsInitiativeText(state'.initiative_input)
        /\ (SetupChar /\ state.menu # "AddEntry") =>
              /\ state'.name_input = state.name_input
              /\ state'.initiative_input = state.initiative_input ]_vars

\* a minus sign and a digit have been typed into the Initiative field
C19_Witness ==
    /\ pc = "setup"
    /\ last = [key |-> "Char", menu |-> "AddEntry"]
    /\ state.active_field = "Initiative"
    /\ state.initiative_input = <<"-", "1">>

\* the form: both buffers and the active field
Form(s) == <<s.name_input, s.initiative_input, s.active_field>>

\* C20: the form outlives Cancel: outside AddEntry no step changes it (entering AddEntry
\* included), in AddEntry Cancel leaves it as it is, and only Confirm with a name
\* empties both buffers and makes Name the active field; besides that only Character,
\* Delete-Char and Next-Field touch it.
C20_FormOutlivesCancel ==
    [][ pc = "setup" =>
            IF state.menu # "AddEntry" THEN Form(state') = Form(state)
            ELSE IF SetupEnter
            THEN Form(state') = IF state.name_input # <<>>
                                THEN <<<<>>, <<>>, "Name">> ELSE Form(state)
            ELSE IF SetupChar \/ SetupBackspace \/ SetupTab THEN TRUE
            ELSE Form(state') = Form(state) ]_vars

\* AddEntry has been entered again with the text and the field of the cancelled entry
C20_Witness ==
    /\ pc = "setup"
    /\ state.menu = "AddEntry"
    /\ last = [key |-> "Enter", menu |-> "PopulateEntries"]
    /\ state.name_input # <<>>
    /\ state.initiative_input # <<>>
    /\ state.active_field = "Initiative"

====
